---- MODULE Spec2Model ----
(***************************************************************************)
(* The MCP command-line client: the process of src/index.ts (module load,  *)
(* main, connectToServer, chatLoop, processMessage, cleanup) and the       *)
(* MCPClient object of src/unnamed/part_000 (connectToServer and the       *)
(* public processQuery).  One action is the code that runs between two     *)
(* awaits; pc names the single await the process is suspended on.          *)
(***************************************************************************)
EXTENDS Integers, Sequences, FiniteSets, TLC

VARIABLES
    pc,            \* where the process is suspended (see PcValues)
    messages,      \* MCPClient.messages: the chat history
    openAITools,   \* MCPClient.openAITools
    catalog,       \* history: mcpTools.tools, what listTools resolved with (<<>>: not yet)
    turns,         \* history: how often processMessage / processQuery was entered
    toolCalls,     \* local toolCalls of processMessage / processQuery
    idx,           \* position of the for..of loop in toolCalls (0: not in the loop)
    requests,      \* history: every chat.completions.create request made, in order
    trace,         \* history: the external calls of the current turn, in order
    turnLog,       \* history: messages as the current/last turn found it (<<>>: no turn yet)
    outcome,       \* history: "none" | "running" | "completed" | "aborted" of the current/last turn
    thrown,        \* the exception that was raised: "none" or its origin
    cleanupCalled, \* history: MCPClient.cleanup was called
    exitCode       \* the process exit code (-1 while the process runs)

vars == <<pc, messages, openAITools, catalog, turns, toolCalls, idx, requests, trace, turnLog,
          outcome, thrown, cleanupCalled, exitCode>>

(***************************************************************************)
(* Bound of the model: the longest chat history explored.                  *)
(***************************************************************************)
MaxLog == 8

(***************************************************************************)
(* Bound of the model: the most tool calls one assistant message carries.  *)
(***************************************************************************)
MaxCalls == 2

PcValues == {"new", "load", "main", "connect", "listTools", "prompt", "llm", "callTool",
             "cleanup", "exited", "idle"}

(***************************************************************************)
(* Data                                                                    *)
(***************************************************************************)
SystemPrompt == "You are an assistant who supports your user. You will have access to a list of tools and/or resources that you may need to respond to the user's messages properly."

SystemMessage == [role |-> "system", content |-> SystemPrompt]

UserMessage(text) == [role |-> "user", content |-> text]

\* console lines the operator may type
Lines == {"What is 2+2?", "quit", "QUIT", "exit"}

\* String.prototype.toLowerCase on the lines above
ToLowerCase(s) ==
    CASE s = "QUIT" -> "quit"
      [] s = "What is 2+2?" -> "what is 2+2?"
      [] OTHER -> s

\* process.argv[2] values, and String.prototype.endsWith on them
ScriptPaths == {"server.js", "server.py", "server.sh"}

EndsWith(path, ext) ==
    \/ ext = ".js" /\ path = "server.js"
    \/ ext = ".py" /\ path = "server.py"

(***************************************************************************)
(* The tool server's catalog (the result of listTools) and its adaptation  *)
(* to the declarations the completion request carries.  An optional field  *)
(* that is undefined is a field the record does not have.                  *)
(***************************************************************************)
GetTime == [name |-> "get_time", description |-> "Current time in a zone",
            inputSchema |-> [type |-> "object", properties |-> [zone |-> "string"],
                             required |-> <<"zone">>]]

Ping == [name |-> "ping",
         inputSchema |-> [type |-> "object", properties |-> [host |-> "string"]]]

Catalogs == {<<GetTime>>, <<Ping, GetTime>>}

Has(rec, field) == field \in DOMAIN rec

\* the fields of rec among keep: an undefined property is dropped
Defined(rec, keep) == [f \in (DOMAIN rec) \cap keep |-> rec[f]]

\* index.ts: tool => ({type: "function", function: {name, description, parameters:
\* {type, properties, required}}})
ToOpenAITool(tool) ==
    [type |-> "function",
     function |->
        Defined(tool, {"name", "description"}) @@
        [parameters |-> Defined(tool.inputSchema, {"type", "properties", "required"})]]

\* part_000: the same without parameters.required
ToOpenAIToolQuery(tool) ==
    [type |-> "function",
     function |->
        Defined(tool, {"name", "description"}) @@
        [parameters |-> Defined(tool.inputSchema, {"type", "properties"})]]

MapTools(tools) == [i \in 1..Len(tools) |-> ToOpenAITool(tools[i])]

MapToolsQuery(tools) == [i \in 1..Len(tools) |-> ToOpenAIToolQuery(tools[i])]

(***************************************************************************)
(* What the model may answer: an assistant message with tool_calls absent, *)
(* empty, or a list of at most MaxCalls calls.  The completion API gives   *)
(* each call of one message its own id; arguments is text the model wrote. *)
(***************************************************************************)
ToolCallIds == {"call_" \o ToString(i) : i \in 1..MaxCalls}

ArgTexts == {"{\"zone\":\"Asia/Tokyo\"}", "{zone"}

ToolCall(id, args) ==
    [id |-> id, type |-> "function",
     function |-> [name |-> "get_time", arguments |-> args]]

ToolCallLists ==
    UNION {{[i \in 1..n |-> ToolCall(ids[i], args[i])] :
                ids \in {f \in [1..n -> ToolCallIds] :
                            \A i, j \in 1..n : f[i] = f[j] => i = j},
                args \in [1..n -> ArgTexts]} : n \in 0..MaxCalls}

AssistantMessages ==
    {[role |-> "assistant", content |-> "4"]} \cup
    {[role |-> "assistant",
      content |-> IF Len(tcs) = 0 THEN "4" ELSE "",
      tool_calls |-> tcs] : tcs \in ToolCallLists}

\* assistantMessage.tool_calls, with undefined read as the empty list: the code
\* tests !toolCalls || toolCalls.length === 0, which holds of both
ToolCallsOf(m) == IF Has(m, "tool_calls") THEN m.tool_calls ELSE <<>>

\* JSON.parse on the argument texts: the parsed value, or a SyntaxError
JSONParse(text) ==
    CASE text = "{\"zone\":\"Asia/Tokyo\"}" -> [ok |-> TRUE, value |-> [zone |-> "Asia/Tokyo"]]
      [] text = "{}" -> [ok |-> TRUE, value |-> <<>>]
      [] OTHER -> [ok |-> FALSE]

\* what callTool resolves with: a result, or a result the server marks isError
ToolResults ==
    {[content |-> <<[type |-> "text", text |-> "2024-01-01T10:00:00+09:00"]>>],
     [content |-> <<[type |-> "text", text |-> "Unknown time zone"]>>, isError |-> TRUE]}

\* JSON.stringify on an array of text content items
RECURSIVE StringifyItems(_)
StringifyItems(items) ==
    IF Len(items) = 0 THEN ""
    ELSE "{\"type\":\"" \o items[1].type \o "\",\"text\":\"" \o items[1].text \o "\"}"
         \o (IF Len(items) > 1 THEN "," ELSE "") \o StringifyItems(Tail(items))

JSONStringify(content) == "[" \o StringifyItems(content) \o "]"

\* the tool message labelled with the function's name instead of the call's id
ToolMessage_Mutant(toolCall, toolCallResult) ==
    [role |-> "tool",
     content |-> JSONStringify(toolCallResult.content),
     tool_call_id |-> toolCall.function.name]

ToolMessage(toolCall, toolCallResult) ==
    [role |-> "tool",
     content |-> JSONStringify(toolCallResult.content),
     tool_call_id |-> toolCall.id]

(***************************************************************************)
(* Steps shared by the two drivers.  d names the driver: "index" is the    *)
(* process of index.ts (main awaits chatLoop, which awaits processMessage),*)
(* "query" is a caller of the public methods of part_000's MCPClient.      *)
(***************************************************************************)

\* the exception ends the process at once: no finally block runs cleanup()
Raise_Mutant(d, kind) ==
    /\ thrown' = Append(thrown, kind)
    /\ pc' = IF d = "index" THEN "exited" ELSE "idle"
    /\ UNCHANGED cleanupCalled

\* Where an exception raised inside a method goes.  index.ts: nothing catches
\* it before main's finally, which calls cleanup() and awaits close().
\* part_000: the method's promise rejects and the object is idle again.
Raise(d, kind) ==
    /\ thrown' = Append(thrown, kind)
    /\ IF d = "index"
         THEN pc' = "cleanup" /\ cleanupCalled' = TRUE
         ELSE pc' = "idle" /\ UNCHANGED cleanupCalled

\* Where control goes when processMessage / processQuery returns
Return(d) == pc' = IF d = "index" THEN "prompt" ELSE "idle"

\* unshift instead of push
AddMessage_Mutant(log, message) == <<message>> \o log

\* addMessage: push onto the history (the console echo is not modelled)
AddMessage(log, message) == Append(log, message)

\* the tools are declared with the first request of the session only
CreateRequest_MutantTools(log) ==
    [messages |-> log, tools |-> IF requests = <<>> THEN openAITools ELSE <<>>]

\* only the newest message is sent
CreateRequest_MutantLast(log) ==
    [messages |-> <<log[Len(log)]>>, tools |-> openAITools]

\* chat.completions.create({model, messages: this.messages, tools: this.openAITools})
CreateRequest(log) == [messages |-> log, tools |-> openAITools]

CreateEvent == [call |-> "create"]

CallToolEvent(toolCall) == [call |-> "callTool", id |-> toolCall.id]

\* the calls of the round are started together and awaited afterwards
BeginCall_Mutant(d, calls, i) ==
    /\ idx' = i
    /\ IF \A k \in i..Len(calls) : JSONParse(calls[k].function.arguments).ok
         THEN /\ pc' = "callTool"
              /\ trace' = trace \o [k \in 1..(Len(calls) - i + 1) |->
                                        CallToolEvent(calls[i + k - 1])]
              /\ UNCHANGED <<thrown, cleanupCalled, outcome>>
         ELSE /\ Raise(d, "parse")
              /\ outcome' = "aborted"
              /\ UNCHANGED trace

\* The body of the for..of loop up to its await, for the call at position i:
\* JSON.parse(toolCall.function.arguments) throws, or callTool is awaited.
BeginCall(d, calls, i) ==
    /\ idx' = i
    /\ IF JSONParse(calls[i].function.arguments).ok
         THEN /\ pc' = "callTool"
              /\ trace' = Append(trace, CallToolEvent(calls[i]))
              /\ UNCHANGED <<thrown, cleanupCalled, outcome>>
         ELSE /\ Raise(d, "parse")
              /\ outcome' = "aborted"
              /\ UNCHANGED trace

\* processMessage / processQuery from its first line to its first await
StartTurn(d, text) ==
    /\ Len(messages) + 2 <= MaxLog
    /\ messages' = AddMessage(messages, UserMessage(text))
    /\ requests' = Append(requests, CreateRequest(messages'))
    /\ trace' = <<CreateEvent>>
    /\ turnLog' = messages
    /\ outcome' = "running"
    /\ pc' = "llm"
    /\ toolCalls' = <<>>
    /\ idx' = 0
    /\ turns' = turns + 1
    /\ UNCHANGED <<openAITools, catalog, thrown, cleanupCalled, exitCode>>

\* a loop that tests its condition at the end: a reply without tool calls is
\* followed by one more request
CreateResolves_Mutant(d, assistantMessage) ==
    /\ pc = "llm"
    /\ Len(messages) + 1 + Len(ToolCallsOf(assistantMessage))
          + (IF Len(ToolCallsOf(assistantMessage)) > 0 THEN 1 ELSE 0) <= MaxLog
    /\ messages' = AddMessage(messages, assistantMessage)
    /\ toolCalls' = ToolCallsOf(assistantMessage)
    /\ IF Len(toolCalls') = 0
         THEN /\ IF Len(trace) = 1
                   THEN /\ pc' = "llm"
                        /\ requests' = Append(requests, CreateRequest(messages'))
                        /\ trace' = Append(trace, CreateEvent)
                        /\ UNCHANGED outcome
                   ELSE /\ Return(d)
                        /\ outcome' = "completed"
                        /\ UNCHANGED <<trace, requests>>
              /\ idx' = 0
              /\ UNCHANGED <<thrown, cleanupCalled>>
         ELSE BeginCall(d, toolCalls', 1) /\ UNCHANGED requests
    /\ UNCHANGED <<openAITools, catalog, turns, turnLog, exitCode>>

\* while (true) without the exit test: a reply without tool calls is followed
\* by another request, in every round
CreateResolves_MutantNoExit(d, assistantMessage) ==
    /\ pc = "llm"
    /\ Len(messages) + 1 + Len(ToolCallsOf(assistantMessage))
          + (IF Len(ToolCallsOf(assistantMessage)) > 0 THEN 1 ELSE 0) <= MaxLog
    /\ messages' = AddMessage(messages, assistantMessage)
    /\ toolCalls' = ToolCallsOf(assistantMessage)
    /\ IF Len(toolCalls') = 0
         THEN /\ pc' = "llm"
              /\ requests' = Append(requests, CreateRequest(messages'))
              /\ trace' = Append(trace, CreateEvent)
              /\ idx' = 0
              /\ UNCHANGED <<outcome, thrown, cleanupCalled>>
         ELSE BeginCall(d, toolCalls', 1) /\ UNCHANGED requests
    /\ UNCHANGED <<openAITools, catalog, turns, turnLog, exitCode>>

\* create() resolved: the assistant message is appended; without tool calls the
\* method returns, with tool calls the while loop starts its for..of loop
CreateResolves(d, assistantMessage) ==
    /\ pc = "llm"
    /\ Len(messages) + 1 + Len(ToolCallsOf(assistantMessage))
          + (IF Len(ToolCallsOf(assistantMessage)) > 0 THEN 1 ELSE 0) <= MaxLog
    /\ messages' = AddMessage(messages, assistantMessage)
    /\ toolCalls' = ToolCallsOf(assistantMessage)
    /\ IF Len(toolCalls') = 0
         THEN /\ Return(d)
              /\ outcome' = "completed"
              /\ idx' = 0
              /\ UNCHANGED <<trace, thrown, cleanupCalled>>
         ELSE BeginCall(d, toolCalls', 1)
    /\ UNCHANGED <<openAITools, catalog, turns, requests, turnLog, exitCode>>

\* the failed round leaves a partial assistant message behind
CreateRejects_Mutant(d) ==
    /\ pc = "llm"
    /\ Raise(d, "llm")
    /\ outcome' = "aborted"
    /\ messages' = AddMessage(messages, [role |-> "assistant", content |-> ""])
    /\ UNCHANGED <<openAITools, catalog, turns, toolCalls, idx, requests, trace, turnLog, exitCode>>

\* the failed turn takes its messages back, the user message included
CreateRejects_MutantPop(d) ==
    /\ pc = "llm"
    /\ Raise(d, "llm")
    /\ outcome' = "aborted"
    /\ messages' = turnLog
    /\ UNCHANGED <<openAITools, catalog, turns, toolCalls, idx, requests, trace,
                   turnLog, exitCode>>

\* create() rejected (or the response has no choices[0]): the exception leaves
\* the method before addMessage is reached
CreateRejects(d) ==
    /\ pc = "llm"
    /\ Raise(d, "llm")
    /\ outcome' = "aborted"
    /\ UNCHANGED <<messages, openAITools, catalog, turns, toolCalls, idx, requests, trace, turnLog,
                   exitCode>>

\* the follow-up request is made after the first result of the round
CallToolResolves_Mutant(d, toolCallResult) ==
    /\ pc = "callTool"
    /\ messages' = AddMessage(messages, ToolMessage(toolCalls[idx], toolCallResult))
    /\ requests' = Append(requests, CreateRequest(messages'))
    /\ trace' = Append(trace, CreateEvent)
    /\ pc' = "llm"
    /\ idx' = 0
    /\ UNCHANGED <<thrown, cleanupCalled, outcome>>
    /\ UNCHANGED <<openAITools, catalog, turns, toolCalls, turnLog, exitCode>>

\* a cap of two requests per turn: after the results of the second round the
\* method returns instead of asking the model again
CallToolResolves_MutantCap(d, toolCallResult) ==
    /\ pc = "callTool"
    /\ messages' = AddMessage(messages, ToolMessage(toolCalls[idx], toolCallResult))
    /\ IF idx < Len(toolCalls)
         THEN /\ BeginCall(d, toolCalls, idx + 1)
              /\ UNCHANGED requests
         ELSE IF Cardinality({i \in DOMAIN trace : trace[i] = CreateEvent}) >= 2
                THEN /\ Return(d)
                     /\ outcome' = "completed"
                     /\ idx' = 0
                     /\ UNCHANGED <<requests, trace, thrown, cleanupCalled>>
                ELSE /\ requests' = Append(requests, CreateRequest(messages'))
                     /\ trace' = Append(trace, CreateEvent)
                     /\ pc' = "llm"
                     /\ idx' = 0
                     /\ UNCHANGED <<thrown, cleanupCalled, outcome>>
    /\ UNCHANGED <<openAITools, catalog, turns, toolCalls, turnLog, exitCode>>

\* callTool resolved: the tool message is appended; then the next call of the
\* round, or after the last one the follow-up request
CallToolResolves(d, toolCallResult) ==
    /\ pc = "callTool"
    /\ messages' = AddMessage(messages, ToolMessage(toolCalls[idx], toolCallResult))
    /\ IF idx < Len(toolCalls)
         THEN /\ BeginCall(d, toolCalls, idx + 1)
              /\ UNCHANGED requests
         ELSE /\ requests' = Append(requests, CreateRequest(messages'))
              /\ trace' = Append(trace, CreateEvent)
              /\ pc' = "llm"
              /\ idx' = 0
              /\ UNCHANGED <<thrown, cleanupCalled, outcome>>
    /\ UNCHANGED <<openAITools, catalog, turns, toolCalls, turnLog, exitCode>>

\* the failed turn is rolled back: the history is reset to what the turn found
CallToolRejects_MutantRollback(d) ==
    /\ pc = "callTool"
    /\ Raise(d, "callTool")
    /\ outcome' = "aborted"
    /\ messages' = turnLog
    /\ UNCHANGED <<openAITools, catalog, turns, toolCalls, idx, requests, trace,
                   turnLog, exitCode>>

\* callTool rejected: nothing catches it inside the method
CallToolRejects(d) ==
    /\ pc = "callTool"
    /\ Raise(d, "callTool")
    /\ outcome' = "aborted"
    /\ UNCHANGED <<messages, openAITools, catalog, turns, toolCalls, idx, requests, trace, turnLog,
                   exitCode>>

(***************************************************************************)
(* The process of index.ts                                                 *)
(***************************************************************************)
Init ==
    /\ pc = "load"
    /\ messages = <<>>
    /\ openAITools = <<>>
    /\ catalog = <<>>
    /\ turns = 0
    /\ toolCalls = <<>>
    /\ idx = 0
    /\ requests = <<>>
    /\ trace = <<>>
    /\ turnLog = <<>>
    /\ outcome = "none"
    /\ thrown = <<>>
    /\ cleanupCalled = FALSE
    /\ exitCode = -1

\* Module top level: without GEMINI_API_KEY the module throws and node exits 1
LoadModule(hasKey) ==
    /\ pc = "load"
    /\ IF hasKey
         THEN pc' = "main" /\ UNCHANGED <<thrown, exitCode>>
         ELSE pc' = "exited" /\ thrown' = Append(thrown, "credentials") /\ exitCode' = 1
    /\ UNCHANGED <<messages, openAITools, catalog, turns, toolCalls, idx, requests, trace, turnLog,
                   outcome, cleanupCalled>>

\* main without a script path: prints the usage and returns; nothing is pending,
\* so node exits 0
MainUsage ==
    /\ pc = "main"
    /\ pc' = "exited"
    /\ exitCode' = 0
    /\ UNCHANGED <<messages, openAITools, catalog, turns, toolCalls, idx, requests, trace, turnLog,
                   outcome, thrown, cleanupCalled>>

\* main with a script path: the constructor, then connectToServer up to
\* await connect(); a path that is neither .js nor .py throws
Main(serverScriptPath) ==
    /\ pc = "main"
    /\ messages' = <<SystemMessage>>
    /\ IF ~EndsWith(serverScriptPath, ".js") /\ ~EndsWith(serverScriptPath, ".py")
         THEN Raise("index", "bootstrap")
         ELSE pc' = "connect" /\ UNCHANGED <<thrown, cleanupCalled>>
    /\ UNCHANGED <<openAITools, catalog, turns, toolCalls, idx, requests, trace, turnLog, outcome,
                   exitCode>>

\* connect() resolved: listTools is awaited
ConnectResolves ==
    /\ pc = "connect"
    /\ pc' = "listTools"
    /\ UNCHANGED <<messages, openAITools, catalog, turns, toolCalls, idx, requests, trace, turnLog,
                   outcome, thrown, cleanupCalled, exitCode>>

\* the catch block logs the error and does not rethrow it: control goes on
\* to chatLoop
BootstrapRejects_Mutant(d) ==
    /\ pc \in {"connect", "listTools"}
    /\ thrown' = Append(thrown, "bootstrap")
    /\ Return(d)
    /\ UNCHANGED <<messages, openAITools, catalog, turns, toolCalls, idx, requests,
                   trace, turnLog, outcome, cleanupCalled, exitCode>>

\* connect() or listTools() rejected: logged and rethrown
BootstrapRejects(d) ==
    /\ pc \in {"connect", "listTools"}
    /\ Raise(d, "bootstrap")
    /\ UNCHANGED <<messages, openAITools, catalog, turns, toolCalls, idx, requests, trace, turnLog,
                   outcome, exitCode>>

\* listTools() resolved: the declarations are built and connectToServer returns;
\* in index.ts chatLoop then asks its first question
ListToolsResolves(d, mcpTools) ==
    /\ pc = "listTools"
    /\ openAITools' = IF d = "index" THEN MapTools(mcpTools) ELSE MapToolsQuery(mcpTools)
    /\ catalog' = mcpTools
    /\ Return(d)
    /\ UNCHANGED <<turns, messages, toolCalls, idx, requests, trace, turnLog, outcome,
                   thrown, cleanupCalled, exitCode>>

\* rl.question resolved with "quit" in any case: break, rl.close(), and main's
\* finally calls cleanup()
Quit(message) ==
    /\ pc = "prompt"
    /\ ToLowerCase(message) = "quit"
    /\ pc' = "cleanup"
    /\ cleanupCalled' = TRUE
    /\ UNCHANGED <<messages, openAITools, catalog, turns, toolCalls, idx, requests, trace, turnLog,
                   outcome, thrown, exitCode>>

\* rl.question resolved with any other line: processMessage(message)
ProcessMessage(message) ==
    /\ pc = "prompt"
    /\ ToLowerCase(message) # "quit"
    /\ StartTurn("index", message)

\* cleanup: close() resolved, then process.exit(0)
CloseResolves ==
    /\ pc = "cleanup"
    /\ pc' = "exited"
    /\ exitCode' = 0
    /\ UNCHANGED <<messages, openAITools, catalog, turns, toolCalls, idx, requests, trace, turnLog,
                   outcome, thrown, cleanupCalled>>

\* cleanup: close() rejected inside main's finally: process.exit(0) is skipped,
\* main's promise rejects unhandled and node (15 and later) exits 1
CloseRejects ==
    /\ pc = "cleanup"
    /\ pc' = "exited"
    /\ thrown' = Append(thrown, "close")
    /\ exitCode' = 1
    /\ UNCHANGED <<messages, openAITools, catalog, turns, toolCalls, idx, requests, trace, turnLog,
                   outcome, cleanupCalled>>

ConnectFails == BootstrapRejects("index")

ListTools(mcpTools) == ListToolsResolves("index", mcpTools)

LLMResponds == \E m \in AssistantMessages : CreateResolves("index", m)

LLMFails == CreateRejects("index")

ToolReturns == \E r \in ToolResults : CallToolResolves("index", r)

ToolFails == CallToolRejects("index")

Next ==
    \/ \E hasKey \in BOOLEAN : LoadModule(hasKey)
    \/ MainUsage
    \/ \E path \in ScriptPaths : Main(path)
    \/ ConnectResolves
    \/ ConnectFails
    \/ \E mcpTools \in Catalogs : ListTools(mcpTools)
    \/ \E line \in Lines : Quit(line)
    \/ \E line \in Lines : ProcessMessage(line)
    \/ LLMResponds
    \/ LLMFails
    \/ ToolReturns
    \/ ToolFails
    \/ CloseResolves
    \/ CloseRejects

Spec == Init /\ [][Next]_vars

\* The process when every completion request and every tool invocation that
\* is awaited resolves in the end (either may still reject instead)
SpecLive == Spec /\ WF_vars(LLMResponds) /\ WF_vars(ToolReturns)

(***************************************************************************)
(* The MCPClient object of part_000 under a caller that awaits each call   *)
(* of its public methods: connectToServer once, then processQuery any      *)
(* number of times, also after a call that rejected.                       *)
(***************************************************************************)
SystemPromptQuery == "You are an assistant who supports your user. You will have access to a list of tools and resources that you may need to respond to the user's messages properly."

SystemMessageQuery == [role |-> "system", content |-> SystemPromptQuery]

Queries == {"What time is it in Tokyo?"}

InitQuery ==
    /\ pc = "new"
    /\ messages = <<SystemMessageQuery>>
    /\ openAITools = <<>>
    /\ catalog = <<>>
    /\ turns = 0
    /\ toolCalls = <<>>
    /\ idx = 0
    /\ requests = <<>>
    /\ trace = <<>>
    /\ turnLog = <<>>
    /\ outcome = "none"
    /\ thrown = <<>>
    /\ cleanupCalled = FALSE
    /\ exitCode = -1

\* connectToServer up to await connect()
QueryConnectToServer(serverScriptPath) ==
    /\ pc = "new"
    /\ IF ~EndsWith(serverScriptPath, ".js") /\ ~EndsWith(serverScriptPath, ".py")
         THEN Raise("query", "bootstrap")
         ELSE pc' = "connect" /\ UNCHANGED <<thrown, cleanupCalled>>
    /\ UNCHANGED <<messages, openAITools, catalog, turns, toolCalls, idx, requests, trace, turnLog,
                   outcome, exitCode>>

QueryConnectFails == BootstrapRejects("query")

QueryListTools(mcpTools) == ListToolsResolves("query", mcpTools)

ProcessQuery(query) ==
    /\ pc = "idle"
    /\ StartTurn("query", query)

QueryLLMResponds == \E m \in AssistantMessages : CreateResolves("query", m)

QueryLLMFails == CreateRejects("query")

QueryToolReturns == \E r \in ToolResults : CallToolResolves("query", r)

QueryToolFails == CallToolRejects("query")

NextQuery ==
    \/ \E path \in ScriptPaths : QueryConnectToServer(path)
    \/ ConnectResolves
    \/ QueryConnectFails
    \/ \E mcpTools \in Catalogs : QueryListTools(mcpTools)
    \/ \E query \in Queries : ProcessQuery(query)
    \/ QueryLLMResponds
    \/ QueryLLMFails
    \/ QueryToolReturns
    \/ QueryToolFails

SpecQuery == InitQuery /\ [][NextQuery]_vars

(***************************************************************************)
(* Vocabulary of the properties                                            *)
(***************************************************************************)
TypeOK ==
    /\ pc \in PcValues
    /\ idx \in 0..MaxCalls
    /\ Len(messages) <= MaxLog
    /\ outcome \in {"none", "running", "completed", "aborted"}
    /\ exitCode \in {-1, 0, 1}

IsPrefix(s, t) == Len(s) <= Len(t) /\ \A i \in 1..Len(s) : s[i] = t[i]

Last(s) == s[Len(s)]

IsAssistant(m) == m.role = "assistant"

IsTool(m) == m.role = "tool"

HasCalls(m) == IsAssistant(m) /\ Len(ToolCallsOf(m)) > 0

\* index of the nearest assistant message before position j of log (0: none)
PrecedingAssistant(log, j) ==
    LET as == {i \in 1..(j - 1) : IsAssistant(log[i])}
    IN  IF as = {} THEN 0 ELSE CHOOSE i \in as : \A k \in as : k <= i

\* the tool messages of log that follow assistant message a before the next one
AnswersOf(log, a) ==
    {k \in (a + 1)..Len(log) : IsTool(log[k]) /\ PrecedingAssistant(log, k) = a}

\* the messages the current/last turn added
TurnSegment == SubSeq(messages, Len(turnLog) + 1, Len(messages))

\* number of assistant messages of the turn that request tool calls
ToolRounds == Cardinality({i \in DOMAIN TurnSegment : HasCalls(TurnSegment[i])})

Count(s, e) == Cardinality({i \in DOMAIN s : s[i] = e})

\* true of the steps in which an exception of one of kinds is raised
Raises(kinds) == Len(thrown') = Len(thrown) + 1 /\ Last(thrown') \in kinds

(***************************************************************************)
(* C1: in every reachable chat history, each tool message's tool_call_id   *)
(* is the id of exactly one entry of the tool_calls of the nearest         *)
(* preceding assistant message, and no two tool messages that follow that  *)
(* assistant message carry the same id.                                    *)
(***************************************************************************)
C1_ToolResultsPaired ==
    \A j \in DOMAIN messages :
        IsTool(messages[j]) =>
            LET a == PrecedingAssistant(messages, j)
                calls == IF a = 0 THEN <<>> ELSE ToolCallsOf(messages[a])
            IN  /\ a > 0
                /\ Cardinality({i \in DOMAIN calls :
                                    calls[i].id = messages[j].tool_call_id}) = 1
                /\ \A k \in AnswersOf(messages, a) :
                       messages[k].tool_call_id = messages[j].tool_call_id => k = j

\* a second turn whose assistant message asked for two calls, both answered
C1_Witness ==
    /\ Len(requests) >= 3
    /\ \E a \in DOMAIN messages :
           /\ a > Len(turnLog)
           /\ Len(turnLog) > 1
           /\ Len(ToolCallsOf(messages[a])) = 2
           /\ Cardinality(AnswersOf(messages, a)) = 2

(***************************************************************************)
(* C4: when a completion request fails, in the first round or a follow-up  *)
(* round, the turn is aborted and the chat history is exactly the history  *)
(* that request carried: no assistant message was appended for the round.  *)
(***************************************************************************)
C4_ModelFailureLeavesLog ==
    (thrown # <<>> /\ thrown[1] = "llm") =>
        /\ outcome = "aborted"
        /\ messages = Last(requests).messages
        /\ ~IsAssistant(Last(messages))

\* the follow-up request of a round with tool results failed
C4_Witness ==
    /\ thrown # <<>> /\ thrown[1] = "llm"
    /\ IsTool(Last(messages))
    /\ Count(trace, CreateEvent) = 2

(***************************************************************************)
(* C5: a completed turn in which the model asked for tool calls in N >= 1  *)
(* successive rounds made exactly N+1 completion requests, and in each     *)
(* round exactly one callTool per entry of that round's tool_calls, in the *)
(* listed order, all between that round's request and the next; the tool   *)
(* messages were appended in that same order.                              *)
(***************************************************************************)
\* the external calls a turn with these assistant messages must have made
RECURSIVE ExpectedTrace(_)
ExpectedTrace(seg) ==
    IF seg = <<>> THEN <<>>
    ELSE (IF IsAssistant(seg[1])
            THEN <<CreateEvent>> \o
                 [i \in DOMAIN ToolCallsOf(seg[1]) |-> CallToolEvent(ToolCallsOf(seg[1])[i])]
            ELSE <<>>)
         \o ExpectedTrace(Tail(seg))

\* the roles and ids the messages of such a turn must have
RECURSIVE ExpectedShape(_)
ExpectedShape(seg) ==
    IF seg = <<>> THEN <<>>
    ELSE (IF IsAssistant(seg[1])
            THEN <<"assistant">> \o
                 [i \in DOMAIN ToolCallsOf(seg[1]) |-> ToolCallsOf(seg[1])[i].id]
            ELSE <<>>)
         \o ExpectedShape(Tail(seg))

Shape(seg) ==
    [i \in DOMAIN seg |->
        IF IsTool(seg[i]) THEN seg[i].tool_call_id ELSE seg[i].role]

C5_RoundTripsAndDispatches ==
    (outcome = "completed" /\ ToolRounds >= 1) =>
        /\ Count(trace, CreateEvent) = ToolRounds + 1
        /\ trace = ExpectedTrace(TurnSegment)
        /\ Shape(TurnSegment) = <<"user">> \o ExpectedShape(TurnSegment)
        /\ ~HasCalls(Last(messages))

\* a completed turn of two tool rounds, one of them with two calls
C5_Witness ==
    /\ outcome = "completed"
    /\ ToolRounds = 2
    /\ \E i \in DOMAIN TurnSegment : Len(ToolCallsOf(TurnSegment[i])) = 2

(***************************************************************************)
(* C6: when the first assistant message of a turn has no tool calls        *)
(* (tool_calls absent or empty), the turn is over after one completion     *)
(* request and no callTool, and the chat history is the history the turn   *)
(* found plus the user message and that assistant message.                 *)
(***************************************************************************)
C6_DirectAnswerEndsTurn ==
    (/\ outcome # "none"
     /\ Len(messages) >= Len(turnLog) + 2
     /\ ~HasCalls(messages[Len(turnLog) + 2])) =>
        /\ outcome = "completed"
        /\ pc # "llm" /\ pc # "callTool"
        /\ trace = <<CreateEvent>>
        /\ \E text \in Lines \cup Queries :
              messages = turnLog \o <<UserMessage(text), messages[Len(turnLog) + 2]>>
        /\ IsAssistant(Last(messages))

\* a second turn answered with an empty tool_calls list, after a first turn
\* answered without the field
C6_Witness ==
    /\ outcome = "completed"
    /\ Len(turnLog) = 3
    /\ ~Has(turnLog[3], "tool_calls")
    /\ Len(messages) = 5
    /\ Has(messages[5], "tool_calls") /\ messages[5].tool_calls = <<>>

(***************************************************************************)
(* C7: the chat history only grows at its end: every step leaves the       *)
(* earlier history a prefix of the later one, and once the client exists   *)
(* its first entry is the system message of the constructor.               *)
(***************************************************************************)
C7_AppendOnly ==
    [][/\ IsPrefix(messages, messages')
       /\ (messages' # <<>> => messages'[1] = SystemMessage)]_vars

\* a second turn is under way after a completed first one
C7_Witness ==
    /\ Len(turnLog) >= 3
    /\ Len(messages) >= Len(turnLog) + 3
    /\ IsTool(Last(messages))

(***************************************************************************)
(* C9: once the client object exists, cleanup() has been called by the     *)
(* time the process has exited, whether the user quit, bootstrap raised or *)
(* a turn raised.                                                          *)
(***************************************************************************)
C9_CleanupBeforeExit ==
    (pc = "exited" /\ messages # <<>>) => cleanupCalled

\* the process has exited after a turn raised
C9_Witness ==
    /\ pc = "exited"
    /\ cleanupCalled
    /\ outcome = "aborted"

(***************************************************************************)
(* C2: no completion request, in any turn, carries a history in which an   *)
(* assistant message has a tool call that no tool message answers.         *)
(***************************************************************************)
Answered(log) ==
    \A a \in DOMAIN log :
        \A i \in DOMAIN ToolCallsOf(log[a]) :
            \E k \in AnswersOf(log, a) : log[k].tool_call_id = ToolCallsOf(log[a])[i].id

C2_NoOutstandingAtSubmit ==
    \A r \in DOMAIN requests : Answered(requests[r].messages)

(***************************************************************************)
(* C3: a tool call that fails (its arguments do not parse, or callTool     *)
(* rejects) yields a tool message with the failing call's id, the turn is  *)
(* not aborted and goes on to the next call or the next request.           *)
(***************************************************************************)
C3_DispatchFailureAbsorbed ==
    [][Raises({"parse", "callTool"}) =>
          /\ outcome' = "running"
          /\ pc' \in {"callTool", "llm"}
          /\ IsTool(Last(messages'))
          /\ Last(messages').tool_call_id = toolCalls'[idx'].id]_vars

(***************************************************************************)
(* C8: when a completion request fails during a turn, the driver goes back *)
(* to the prompt: cleanup() is not called and the process does not exit.   *)
(***************************************************************************)
C8_FailedTurnReturnsToPrompt ==
    [][Raises({"llm"}) => (pc' = "prompt" /\ ~cleanupCalled')]_vars

(***************************************************************************)
(* C10: the exit code is 0 when the session ended without an exception     *)
(* (the user quit) and non-zero when bootstrap failed: the credentials are *)
(* missing, the script path is unsupported or the tool server could not be *)
(* reached.                                                                *)
(***************************************************************************)
C10_ExitCodes ==
    pc = "exited" =>
        /\ thrown = <<>> => exitCode = 0
        /\ (thrown # <<>> /\ thrown[1] \in {"credentials", "bootstrap"}) => exitCode # 0

(***************************************************************************)
(* C11: a console line that is "quit" or "exit" in any letter case ends    *)
(* the session and is not processed as a turn: it never becomes a user     *)
(* message and no request is made for it.                                  *)
(***************************************************************************)
IsUser(m) == m.role = "user"

Sentinels == {"quit", "exit"}

C11_SentinelsEndSession ==
    /\ \A i \in DOMAIN messages :
          IsUser(messages[i]) => ToLowerCase(messages[i].content) \notin Sentinels
    /\ \A r \in DOMAIN requests :
          \A i \in DOMAIN requests[r].messages :
              IsUser(requests[r].messages[i]) =>
                  ToLowerCase(requests[r].messages[i].content) \notin Sentinels

(***************************************************************************)
(* C12: when bootstrap fails (unsupported script path, connect or          *)
(* listTools rejecting) the chat loop is never entered: no line is read,   *)
(* no user message is appended and no request is made.                     *)
(***************************************************************************)
C12_BootstrapFailureNoTurn ==
    (thrown # <<>> /\ thrown[1] = "bootstrap") =>
        /\ pc \in {"cleanup", "exited"}
        /\ turns = 0
        /\ requests = <<>>
        /\ messages = <<SystemMessage>>
        /\ outcome = "none"

\* the process has exited after connect or listTools rejected
C12_Witness ==
    /\ thrown # <<>> /\ thrown[1] = "bootstrap"
    /\ pc = "exited"

(***************************************************************************)
(* C13: at most one external request (console read, completion request,    *)
(* tool invocation) is outstanding at any time: a line is read only when   *)
(* no turn is running, a tool invocation is started only when every        *)
(* earlier invocation of the round has its tool message, and a completion  *)
(* request is started only when every invocation of the round has.         *)
(***************************************************************************)
IsCallTool(e) == e.call = "callTool"

\* completion requests of the running turn that have no reply yet
OpenCreates ==
    Count(trace, CreateEvent)
        - Cardinality({i \in DOMAIN TurnSegment : IsAssistant(TurnSegment[i])})

\* tool invocations of the running turn that have no tool message yet
OpenCallTools ==
    Cardinality({i \in DOMAIN trace : IsCallTool(trace[i])})
        - Cardinality({i \in DOMAIN TurnSegment : IsTool(TurnSegment[i])})

OpenReads == IF pc = "prompt" THEN 1 ELSE 0

C13_OneRequestAtATime ==
    /\ outcome = "running" =>
          /\ OpenCreates + OpenCallTools = 1
          /\ OpenCreates = 1 <=> pc = "llm"
          /\ OpenCallTools = 1 <=> pc = "callTool"
          /\ OpenReads = 0
    /\ pc = "prompt" => outcome \in {"none", "completed"}
    /\ pc = "llm" => (Last(trace) = CreateEvent /\ ~IsAssistant(Last(messages)))
    /\ pc = "callTool" =>
          /\ Last(trace) = CallToolEvent(toolCalls[idx])
          /\ Cardinality(AnswersOf(messages, PrecedingAssistant(messages, Len(messages) + 1)))
                = idx - 1

\* the second invocation of a round is outstanding, the first has its message
C13_Witness ==
    /\ pc = "callTool"
    /\ idx = 2
    /\ IsTool(Last(messages))

(***************************************************************************)
(* C14: when every awaited completion request and tool invocation          *)
(* resolves, a running turn ends: unless an exception is raised, it        *)
(* completes with the model's message without tool calls and control is    *)
(* back at the prompt.                                                     *)
(***************************************************************************)
C14_TurnCompletes ==
    (outcome = "running") ~>
        \/ outcome = "completed" /\ pc = "prompt" /\ ~HasCalls(Last(messages))
        \/ thrown # <<>>

\* a turn of two tool rounds has completed and the prompt is shown again
C14_Witness ==
    /\ outcome = "completed"
    /\ pc = "prompt"
    /\ ToolRounds = 2

(***************************************************************************)
(* C15: the turn loop has no cap on rounds.  A running turn ends only by a *)
(* reply without tool calls or by an exception; a reply with tool calls    *)
(* always starts its dispatches, and the last tool message of a round is   *)
(* always followed by one more completion request, whatever the number of  *)
(* rounds so far.                                                          *)
(***************************************************************************)
C15_NoRoundCap ==
    [][/\ (outcome = "running" /\ outcome' # "running") =>
             \/ /\ outcome' = "completed"
                /\ pc = "llm"
                /\ messages' # messages
                /\ ~HasCalls(Last(messages'))
             \/ /\ outcome' = "aborted"
                /\ Len(thrown') = Len(thrown) + 1
       /\ (pc = "llm" /\ messages' # messages /\ HasCalls(Last(messages'))
              /\ thrown' = thrown) =>
             (outcome' = "running" /\ pc' = "callTool")
       /\ (pc = "callTool" /\ messages' # messages /\ idx = Len(toolCalls)) =>
             /\ outcome' = "running"
             /\ pc' = "llm"
             /\ Count(trace', CreateEvent) = Count(trace, CreateEvent) + 1
             /\ Len(requests') = Len(requests) + 1]_vars

\* the third request of a turn is outstanding after two rounds of tool calls
C15_Witness ==
    /\ outcome = "running"
    /\ pc = "llm"
    /\ ToolRounds = 2
    /\ Count(trace, CreateEvent) = 3

(***************************************************************************)
(* C16: the declared tool set is fixed by bootstrap: no step of a turn     *)
(* changes openAITools, and every completion request of the session        *)
(* carries that same tool set.                                             *)
(***************************************************************************)
C16_ToolSetFixed ==
    [][/\ pc \in {"prompt", "llm", "callTool", "cleanup", "idle"} =>
             openAITools' = openAITools
       /\ \A r \in DOMAIN requests' : requests'[r].tools = openAITools']_vars

\* the third request of a session with a catalog of two tools
C16_Witness ==
    /\ Len(requests) = 3
    /\ Len(openAITools) = 2
    /\ pc = "llm"

(***************************************************************************)
(* C17: for every catalog the tool server returns, the adapter yields one  *)
(* declaration per entry, in the catalog's order, each with the entry's    *)
(* name, its description, and its input schema's type, properties and,     *)
(* when present, required.                                                 *)
(***************************************************************************)
Declares(declaration, tool) ==
    /\ declaration.type = "function"
    /\ declaration.function.name = tool.name
    /\ Has(tool, "description") =>
          /\ Has(declaration.function, "description")
          /\ declaration.function.description = tool.description
    /\ declaration.function.parameters.type = tool.inputSchema.type
    /\ declaration.function.parameters.properties = tool.inputSchema.properties
    /\ Has(tool.inputSchema, "required") =>
          /\ Has(declaration.function.parameters, "required")
          /\ declaration.function.parameters.required = tool.inputSchema.required

C17_OneDeclarationPerTool ==
    catalog # <<>> =>
        /\ Len(openAITools) = Len(catalog)
        /\ \A i \in DOMAIN catalog : Declares(openAITools[i], catalog[i])

(***************************************************************************)
(* C18: every completion request carries the whole chat history as it is   *)
(* when the request is made, so each request's history strictly extends    *)
(* the previous request's, and it ends with a user or a tool message.      *)
(***************************************************************************)
IsStrictPrefix(s, t) == IsPrefix(s, t) /\ Len(s) < Len(t)

C18_RequestsCarryWholeLog ==
    /\ \A r \in DOMAIN requests :
          /\ IsPrefix(requests[r].messages, messages)
          /\ requests[r].messages # <<>>
          /\ IsUser(Last(requests[r].messages)) \/ IsTool(Last(requests[r].messages))
          /\ r > 1 => IsStrictPrefix(requests[r - 1].messages, requests[r].messages)
    /\ pc = "llm" => Last(requests).messages = messages

\* a request that ends with a tool message follows one that ends with a user
\* message, in the second turn of the session
C18_Witness ==
    /\ Len(requests) = 3
    /\ pc = "llm"
    /\ IsUser(Last(requests[2].messages))
    /\ IsTool(Last(requests[3].messages))

(***************************************************************************)
(* C19: when the j-th tool call of a round raises (JSON.parse or callTool) *)
(* the turn is aborted without rollback: the history keeps the round's     *)
(* assistant message and the tool messages of calls 1..j-1, has no tool    *)
(* message for call j or a later one, and the turn makes no further        *)
(* invocation or completion request.                                       *)
(***************************************************************************)
C19_DispatchFailureNoRollback ==
    (thrown # <<>> /\ thrown[1] \in {"parse", "callTool"}) =>
        LET a == PrecedingAssistant(messages, Len(messages) + 1)
        IN  /\ outcome = "aborted"
            /\ pc \in {"cleanup", "exited"}
            /\ idx \in 1..Len(toolCalls)
            /\ a > Len(turnLog)
            /\ IsPrefix(turnLog, messages)
            /\ ToolCallsOf(messages[a]) = toolCalls
            /\ Len(messages) = a + idx - 1
            /\ \A k \in 1..(idx - 1) :
                  /\ IsTool(messages[a + k])
                  /\ messages[a + k].tool_call_id = toolCalls[k].id
            /\ Last(requests).messages = SubSeq(messages, 1, a - 1)
            /\ Count(trace, CreateEvent)
                  = Cardinality({i \in DOMAIN TurnSegment : IsAssistant(TurnSegment[i])})
            /\ Cardinality({i \in DOMAIN trace : IsCallTool(trace[i])})
                  = Cardinality({i \in DOMAIN TurnSegment : IsTool(TurnSegment[i])})
                    + (IF thrown[1] = "callTool" THEN 1 ELSE 0)

\* the second call of a round was rejected by callTool; the first has its
\* tool message
C19_Witness ==
    /\ thrown # <<>> /\ thrown[1] = "callTool"
    /\ idx = 2
    /\ IsTool(Last(messages))
    /\ pc = "exited"

(***************************************************************************)
(* C20: each turn appends exactly one user message, before its first       *)
(* completion request, and the message stays when that request fails; the  *)
(* number of user messages equals the number of turns started, so a turn   *)
(* started after a turn whose first request failed leaves two consecutive  *)
(* user messages.                                                          *)
(***************************************************************************)
UserCount(log) == Cardinality({i \in DOMAIN log : IsUser(log[i])})

C20_OneUserMessagePerTurn ==
    /\ UserCount(messages) = turns
    /\ outcome # "none" =>
          /\ IsPrefix(turnLog, messages)
          /\ Len(messages) > Len(turnLog)
          /\ IsUser(messages[Len(turnLog) + 1])
          /\ UserCount(messages) = UserCount(turnLog) + 1
          /\ \A r \in DOMAIN requests :
                Len(requests[r].messages) > Len(turnLog) =>
                    requests[r].messages[Len(turnLog) + 1] = messages[Len(turnLog) + 1]
          /\ \E r \in DOMAIN requests :
                requests[r].messages = SubSeq(messages, 1, Len(turnLog) + 1)
          /\ IsUser(Last(turnLog)) =>
                (IsUser(messages[Len(turnLog)]) /\ IsUser(messages[Len(turnLog) + 1]))
    /\ (outcome = "aborted" /\ Last(thrown) = "llm" /\ trace = <<CreateEvent>>) =>
          (IsUser(Last(messages)) /\ Len(messages) = Len(turnLog) + 1)

\* the same input was submitted again after the first request of a turn failed
C20_Witness ==
    /\ outcome = "running"
    /\ thrown # <<>> /\ Last(thrown) = "llm"
    /\ Len(messages) = Len(turnLog) + 1
    /\ IsUser(Last(turnLog))
    /\ Last(turnLog) = Last(messages)

====
